---- MODULE Spec2Model ----
\* Account API (src/app.py): GET /accounts and POST /accounts over one SQLite
\* table.  Every request runs in its own worker with its own connection; the
\* table and SQLite's write lock are the only shared state.
EXTENDS Integers, Sequences, FiniteSets, TLC

\* ---------------------------------------------------------------- bounds
NumWorkers == 2
MaxRequests == 2

\* ------------------------------------------------------ program constants
MinUsernameLen == 3
MaxUsernameLen == 20
MinPasswordLen == 6

Workers == 1 .. NumWorkers

\* ------------------------------------------------------------ characters
Lower == {"a", "b", "c", "d", "e", "f", "g", "h", "i", "j", "k", "l", "m",
          "n", "o", "p", "q", "r", "s", "t", "u", "v", "w", "x", "y", "z"}
Upper == {"A", "B", "C", "D", "E", "F", "G", "H", "I", "J", "K", "L", "M",
          "N", "O", "P", "Q", "R", "S", "T", "U", "V", "W", "X", "Y", "Z"}
Digit == {"0", "1", "2", "3", "4", "5", "6", "7", "8", "9"}

\* [a-zA-Z0-9_.+-]
LocalClass == Lower \cup Upper \cup Digit \cup {"_", ".", "+", "-"}
\* [a-zA-Z0-9-]
DomainClass == Lower \cup Upper \cup Digit \cup {"-"}
\* [a-zA-Z0-9-.]
TailClass == Lower \cup Upper \cup Digit \cup {"-", "."}

AllIn(s, from, to, class) == \A k \in from .. to : s[k] \in class

\* re.match(r'^[a-zA-Z0-9_.+-]+@[a-zA-Z0-9-]+\.[a-zA-Z0-9-.]+$', email): the
\* string splits as local "@" domain "." tail, each part non-empty and drawn
\* from its class; "$" also matches just before one trailing newline.
validate_email(email) ==
    \E at \in 2 .. Len(email) :
        /\ email[at] = "@"
        /\ AllIn(email, 1, at - 1, LocalClass)
        /\ \E dot \in at + 2 .. Len(email) :
            /\ email[dot] = "."
            /\ AllIn(email, at + 1, dot - 1, DomainClass)
            /\ \E end \in dot + 1 .. Len(email) :
                /\ AllIn(email, dot + 1, end, TailClass)
                /\ \/ end = Len(email)
                   \/ end = Len(email) - 1 /\ email[Len(email)] = "\n"

\* ------------------------------------------------------- request inputs
Repeat(c, n) == [i \in 1 .. n |-> c]

Usernames == { <<"a", "b">>,
               <<"a", "n", "n">>,
               Repeat("x", MaxUsernameLen),
               Repeat("x", MaxUsernameLen + 1) }

Emails == { <<"a", "@", "b", ".", "c">>,
            <<"a", "+", "1", "@", "b", "-", "c", ".", "d", ".", "e", "\n">>,
            <<"a", "@", ".", "c">> }

Passwords == { <<"1", "2", "3", "4", "5">>,
               <<"s", "e", "c", "r", "e", "t">> }

Salts == {"salt1", "salt2"}

Fields == {"username", "email", "password"}

\* --------------------------------------------------------------- helpers
NoArgs == [username |-> <<>>, email |-> <<>>, password |-> <<>>]
NoException == [type |-> "none", msg |-> <<>>]
NoResponse == [status |-> 0, kind |-> "none"]

\* 'x' in str(e)
Contains(msg, word) == \E i \in 1 .. Len(msg) : msg[i] = word

\* Mutant of generate_password_hash: the password is stored as it came.
StorePlaintext(password, salt) == password

\* werkzeug.security.generate_password_hash(password): "method$salt$digest"
\* with a fresh random salt.  The digest is a one-way function of salt and
\* password, kept symbolic.
generate_password_hash(password, salt) ==
    <<"scrypt:32768:8:1", "$", salt, "$", "H(", salt>> \o password \o <<")">>

\* --------------------------------------------------------------- state
VARIABLES
    accounts,   \* committed rows of table accounts, in rowid order
    writer,     \* worker whose transaction holds SQLite's write lock, 0 = free
    started,    \* requests accepted so far
    garbage,    \* connections no handler refers to any more, still open
    pc,         \* per worker: position in its handler
    kind,       \* per worker: "none", "get" or "post"
    args,       \* per worker: parser.parse_args()
    conn,       \* per worker: the handler's conn, "none" or "open"
    pending,    \* per worker: rows written by its open transaction
    exc,        \* per worker: exception in flight
    retval,     \* per worker: rows fetched by the handler's SELECT
    resp,       \* per worker: response of the finished request
    inserted,   \* per worker: id of the row its INSERT wrote, 0 = none
    tableLen    \* per worker: Len(accounts) when its SQL statement ran

vars == <<accounts, writer, started, garbage, pc, kind, args, conn,
          pending, exc, retval, resp, inserted, tableLen>>

reqVars == <<kind, args, conn, pending, exc, retval, resp, inserted, tableLen>>

\* init_db: CREATE TABLE IF NOT EXISTS accounts (...), empty.
Init ==
    /\ accounts = <<>>
    /\ writer = 0
    /\ started = 0
    /\ garbage = 0
    /\ pc = [p \in Workers |-> "idle"]
    /\ kind = [p \in Workers |-> "none"]
    /\ args = [p \in Workers |-> NoArgs]
    /\ conn = [p \in Workers |-> "none"]
    /\ pending = [p \in Workers |-> <<>>]
    /\ exc = [p \in Workers |-> NoException]
    /\ retval = [p \in Workers |-> <<>>]
    /\ resp = [p \in Workers |-> NoResponse]
    /\ inserted = [p \in Workers |-> 0]
    /\ tableLen = [p \in Workers |-> 0]

\* ------------------------------------------------------------ validation
ErrorMessage ==
    [f \in Fields |->
        CASE f = "username" -> "username must be 3 to 20 characters long"
          [] f = "email" -> "invalid email format"
          [] f = "password" -> "password must be at least 6 characters long"]

\* Mutant of Validate: the checks stop at the first field that fails.
ValidateFirstError(a) ==
    IF Len(a.username) < MinUsernameLen \/ Len(a.username) > MaxUsernameLen
    THEN {"username"}
    ELSE IF ~ validate_email(a.email) THEN {"email"}
    ELSE IF Len(a.password) < MinPasswordLen THEN {"password"}
    ELSE {}

\* post, "errors = {}" and the three checks: the fields errors gets a key for.
Validate(a) ==
    { f \in Fields :
        \/ /\ f = "username"
           /\ (Len(a.username) < MinUsernameLen \/ Len(a.username) > MaxUsernameLen)
        \/ /\ f = "email"
           /\ ~ validate_email(a.email)
        \/ /\ f = "password"
           /\ Len(a.password) < MinPasswordLen }

\* api.abort(code, message)
Abort(code, message) == [status |-> code, kind |-> "abort", message |-> message]

\* An exception no handler catches leaves the view function.
Unhandled(e) == [status |-> 500, kind |-> "unhandled", exception |-> e.type]

\* return value, code
Return(code, body) == [status |-> code, kind |-> "return", body |-> body]

\* -------------------------------------------------------------- storage
\* Values of CURRENT_TIMESTAMP, which SQLite renders as text.
Timestamps == {"2024-01-01 00:00:00", "2024-01-01 00:00:01"}

\* JSON null, what marshalling gives for a key the value lacks.
Null == "null"

IntegrityError(column) ==
    [type |-> "IntegrityError",
     msg |-> <<"UNIQUE constraint failed: ", "accounts", ".", column>>]

OperationalError(text) == [type |-> "OperationalError", msg |-> <<text>>]

\* Mutant of UniqueViolation: the columns are not declared UNIQUE.
UniqueViolationUnchecked(table, username, email) == "none"

\* Mutant of UniqueViolation: the username constraint is reported first.
UniqueViolationUsernameFirst(table, username, email) ==
    IF \E i \in 1 .. Len(table) : table[i].username = username THEN "username"
    ELSE IF \E i \in 1 .. Len(table) : table[i].email = email THEN "email"
    ELSE "none"

\* The UNIQUE constraints of table accounts.  SQLite checks a table's indexes
\* from the last one created, so a row that breaks both reports email.
UniqueViolation(table, username, email) ==
    IF \E i \in 1 .. Len(table) : table[i].email = email THEN "email"
    ELSE IF \E i \in 1 .. Len(table) : table[i].username = username THEN "username"
    ELSE "none"

\* id INTEGER PRIMARY KEY AUTOINCREMENT: rows are never deleted.
NextId(table) == Len(table) + 1

\* fields of account_model
AccountFields == {"id", "username", "email", "created_at"}

\* marshal_with(account_model): every field of the model, null when absent.
Marshal(d) == [f \in AccountFields |-> IF f \in DOMAIN d THEN d[f] ELSE Null]

\* SELECT id, username, email FROM accounts; dict(row) for each row.
SelectAccounts(table) ==
    [i \in 1 .. Len(table) |->
        [id |-> table[i].id, username |-> table[i].username, email |-> table[i].email]]

\* ------------------------------------------------------------- requests
\* An exception raised inside get or post: get catches sqlite3.Error, post
\* catches sqlite3.IntegrityError only.
Caught(k, e) ==
    \/ k = "get" /\ e.type \in {"IntegrityError", "OperationalError"}
    \/ k = "post" /\ e.type = "IntegrityError"

\* GET /accounts arrives.
StartGet(p) ==
    /\ pc[p] = "idle"
    /\ started < MaxRequests
    /\ started' = started + 1
    /\ kind' = [kind EXCEPT ![p] = "get"]
    /\ pc' = [pc EXCEPT ![p] = "connect"]
    /\ UNCHANGED <<accounts, writer, garbage, args, conn, pending, exc,
                   retval, resp, inserted, tableLen>>

\* POST /accounts arrives: parse_args, the three checks, abort(400, errors).
StartPost(p) ==
    /\ pc[p] = "idle"
    /\ started < MaxRequests
    /\ started' = started + 1
    /\ \E u \in Usernames, e \in Emails, w \in Passwords :
        LET a == [username |-> u, email |-> e, password |-> w]
            errors == Validate(a)
        IN /\ args' = [args EXCEPT ![p] = a]
           /\ kind' = [kind EXCEPT ![p] = "post"]
           /\ IF errors # {}
              THEN /\ resp' = [resp EXCEPT ![p] =
                                 Abort(400, [f \in errors |-> ErrorMessage[f]])]
                   /\ pc' = [pc EXCEPT ![p] = "done"]
              ELSE /\ pc' = [pc EXCEPT ![p] = "connect"]
                   /\ UNCHANGED resp
    /\ UNCHANGED <<accounts, writer, garbage, conn, pending, exc, retval,
                   inserted, tableLen>>

\* get_db(): sqlite3.connect and entry of the with block.
GetDb(p) ==
    /\ pc[p] = "connect"
    /\ conn' = [conn EXCEPT ![p] = "open"]
    /\ pc' = [pc EXCEPT ![p] = IF kind[p] = "get" THEN "select" ELSE "insert"]
    /\ UNCHANGED <<accounts, writer, started, garbage, kind, args, pending,
                   exc, retval, resp, inserted, tableLen>>

\* get: cursor.execute(SELECT ...) and fetchall.  A reader sees committed rows.
SelectAll(p) ==
    /\ pc[p] = "select"
    /\ retval' = [retval EXCEPT ![p] = SelectAccounts(accounts)]
    /\ tableLen' = [tableLen EXCEPT ![p] = Len(accounts)]
    /\ pc' = [pc EXCEPT ![p] = "exit_with"]
    /\ UNCHANGED <<accounts, writer, started, garbage, kind, args, conn,
                   pending, exc, resp, inserted>>

\* The row INSERT INTO accounts (username, email, password_hash) writes.
NewRow(table, a, salt, ts) ==
    [id |-> NextId(table),
     username |-> a.username,
     email |-> a.email,
     password_hash |-> generate_password_hash(a.password, salt),
     created_at |-> ts]

\* post: generate_password_hash and cursor.execute(INSERT ...).  The statement
\* opens a transaction and takes the write lock; a writer waits for the lock.
Insert(p) ==
    /\ pc[p] = "insert"
    /\ writer = 0
    /\ writer' = p
    /\ tableLen' = [tableLen EXCEPT ![p] = Len(accounts)]
    /\ LET v == UniqueViolation(accounts, args[p].username, args[p].email)
       IN IF v = "none"
          THEN /\ \E salt \in Salts, ts \in Timestamps :
                    pending' = [pending EXCEPT ![p] =
                                  <<NewRow(accounts, args[p], salt, ts)>>]
               /\ pc' = [pc EXCEPT ![p] = "commit"]
               /\ UNCHANGED exc
          ELSE /\ exc' = [exc EXCEPT ![p] = IntegrityError(v)]
               /\ pc' = [pc EXCEPT ![p] = "exit_with"]
               /\ UNCHANGED pending
    /\ UNCHANGED <<accounts, started, garbage, kind, args, conn, retval,
                   resp, inserted>>

\* post: conn.commit().
Commit(p) ==
    /\ pc[p] = "commit"
    /\ accounts' = accounts \o pending[p]
    /\ inserted' = [inserted EXCEPT ![p] = pending[p][1].id]
    /\ pending' = [pending EXCEPT ![p] = <<>>]
    /\ writer' = 0
    /\ pc' = [pc EXCEPT ![p] = "readback"]
    /\ UNCHANGED <<started, garbage, kind, args, conn, exc, retval, resp,
                   tableLen>>

\* post: cursor.execute('SELECT id, username, email, FROM accounts WHERE id = ?'):
\* the comma before FROM is a syntax error.
ReadBack(p) ==
    /\ pc[p] = "readback"
    /\ exc' = [exc EXCEPT ![p] = OperationalError("near FROM: syntax error")]
    /\ pc' = [pc EXCEPT ![p] = "exit_with"]
    /\ UNCHANGED <<accounts, writer, started, garbage, kind, args, conn,
                   pending, retval, resp, inserted, tableLen>>

\* Connection.__exit__ without an exception: commit; the connection stays
\* open.  Then the handler returns and the response is marshalled.
ExitWithCommit(p) ==
    /\ pc[p] = "exit_with"
    /\ exc[p].type = "none"
    /\ accounts' = accounts \o pending[p]
    /\ pending' = [pending EXCEPT ![p] = <<>>]
    /\ writer' = IF writer = p THEN 0 ELSE writer
    /\ resp' = [resp EXCEPT ![p] =
                  Return(IF kind[p] = "get" THEN 200 ELSE 201,
                         [i \in 1 .. Len(retval[p]) |-> Marshal(retval[p][i])])]
    /\ pc' = [pc EXCEPT ![p] = "done"]
    /\ UNCHANGED <<started, garbage, kind, args, conn, exc, retval,
                   inserted, tableLen>>

\* Connection.__exit__ with an exception: rollback; the connection stays open
\* and the exception goes on to the handler's except clause, if one matches.
ExitWithRollback(p) ==
    /\ pc[p] = "exit_with"
    /\ exc[p].type # "none"
    /\ pending' = [pending EXCEPT ![p] = <<>>]
    /\ writer' = IF writer = p THEN 0 ELSE writer
    /\ IF Caught(kind[p], exc[p])
       THEN /\ pc' = [pc EXCEPT ![p] = "except"]
            /\ UNCHANGED resp
       ELSE /\ pc' = [pc EXCEPT ![p] = "done"]
            /\ resp' = [resp EXCEPT ![p] = Unhandled(exc[p])]
    /\ UNCHANGED <<accounts, started, garbage, kind, args, conn, exc,
                   retval, inserted, tableLen>>

\* post, except sqlite3.IntegrityError: the message names the column found in
\* str(e), username looked for first.
ConflictMessage(e) ==
    IF Contains(e.msg, "username") THEN <<"uniqueness error: ", "username already exists">>
    ELSE IF Contains(e.msg, "email") THEN <<"uniqueness error: ", "email already registered">>
    ELSE <<"uniqueness error: ">>

ExceptIntegrity(p) ==
    /\ pc[p] = "except"
    /\ kind[p] = "post"
    /\ resp' = [resp EXCEPT ![p] = Abort(409, ConflictMessage(exc[p]))]
    /\ pc' = [pc EXCEPT ![p] = "done"]
    /\ UNCHANGED <<accounts, writer, started, garbage, kind, args, conn,
                   pending, exc, retval, inserted, tableLen>>

\* The response is sent and the handler's frame is dropped: nothing refers to
\* its connection any more, and nothing has closed it.
Respond(p) ==
    /\ pc[p] = "done"
    /\ garbage' = IF conn[p] = "open" THEN garbage + 1 ELSE garbage
    /\ pc' = [pc EXCEPT ![p] = "idle"]
    /\ kind' = [kind EXCEPT ![p] = "none"]
    /\ args' = [args EXCEPT ![p] = NoArgs]
    /\ conn' = [conn EXCEPT ![p] = "none"]
    /\ exc' = [exc EXCEPT ![p] = NoException]
    /\ retval' = [retval EXCEPT ![p] = <<>>]
    /\ resp' = [resp EXCEPT ![p] = NoResponse]
    /\ inserted' = [inserted EXCEPT ![p] = 0]
    /\ tableLen' = [tableLen EXCEPT ![p] = 0]
    /\ UNCHANGED <<accounts, writer, started, pending>>

\* The interpreter reclaims an unreferenced connection object, closing it.
Collect ==
    /\ garbage > 0
    /\ garbage' = garbage - 1
    /\ UNCHANGED <<accounts, writer, started, pc, reqVars>>

Next ==
    \/ Collect
    \/ \E p \in Workers :
        \/ StartGet(p)
        \/ StartPost(p)
        \/ GetDb(p)
        \/ SelectAll(p)
        \/ Insert(p)
        \/ Commit(p)
        \/ ReadBack(p)
        \/ ExitWithCommit(p)
        \/ ExitWithRollback(p)
        \/ ExceptIntegrity(p)
        \/ Respond(p)

Spec == Init /\ [][Next]_vars

\* ------------------------------------------------------ storage failures
\* sqlite3.connect fails (the database file cannot be opened): raised in the
\* with statement's header, before the block is entered.
ConnectFail(p) ==
    /\ pc[p] = "connect"
    /\ exc' = [exc EXCEPT ![p] = OperationalError("unable to open database file")]
    /\ IF Caught(kind[p], exc'[p])
       THEN /\ pc' = [pc EXCEPT ![p] = "except"]
            /\ UNCHANGED resp
       ELSE /\ pc' = [pc EXCEPT ![p] = "done"]
            /\ resp' = [resp EXCEPT ![p] = Unhandled(exc'[p])]
    /\ UNCHANGED <<accounts, writer, started, garbage, kind, args, conn,
                   pending, retval, inserted, tableLen>>

\* cursor.execute fails for a reason other than a constraint: the table is
\* missing (init_db runs only under __main__), or the database stays locked
\* past the busy timeout.
ExecuteFail(p) ==
    /\ pc[p] \in {"select", "insert"}
    /\ \E text \in {"no such table: accounts", "database is locked"} :
        exc' = [exc EXCEPT ![p] = OperationalError(text)]
    /\ pc' = [pc EXCEPT ![p] = "exit_with"]
    /\ UNCHANGED <<accounts, writer, started, garbage, kind, args, conn,
                   pending, retval, resp, inserted, tableLen>>

\* get, except sqlite3.Error: api.abort(500, ...).
ExceptSqliteError(p) ==
    /\ pc[p] = "except"
    /\ kind[p] = "get"
    /\ resp' = [resp EXCEPT ![p] = Abort(500, <<"database error">>)]
    /\ pc' = [pc EXCEPT ![p] = "done"]
    /\ UNCHANGED <<accounts, writer, started, garbage, kind, args, conn,
                   pending, exc, retval, inserted, tableLen>>

NextFault ==
    \/ Next
    \/ \E p \in Workers :
        \/ ConnectFail(p)
        \/ ExecuteFail(p)
        \/ ExceptSqliteError(p)

SpecFault == Init /\ [][NextFault]_vars

\* --------------------------------------------------------------- claims
\* The rules of the specification's data model, stated on the request alone.
ViolatedFields(a) ==
    (IF Len(a.username) \in MinUsernameLen .. MaxUsernameLen THEN {} ELSE {"username"})
    \cup (IF validate_email(a.email) THEN {} ELSE {"email"})
    \cup (IF Len(a.password) >= MinPasswordLen THEN {} ELSE {"password"})

Finished(p, k) == pc[p] = "done" /\ kind[p] = k

\* The table as it was when worker p's SQL statement ran (rows are only appended).
UsernameStoredBefore(p) ==
    \E i \in 1 .. tableLen[p] : accounts[i].username = args[p].username

EmailStoredBefore(p) ==
    \E i \in 1 .. tableLen[p] : accounts[i].email = args[p].email

\* Worker p's record is in the table, under a generated id.
RecordStored(p) ==
    \E i \in 1 .. Len(accounts) :
        /\ accounts[i].username = args[p].username
        /\ accounts[i].email = args[p].email
        /\ accounts[i].id = inserted[p]
        /\ accounts[i].id > 0

\* A finished List whose SELECT ran once worker p's record was committed.
ListedAfter(q, p) ==
    /\ Finished(q, "get")
    /\ resp[q].status = 200
    /\ inserted[p] > 0
    /\ tableLen[q] >= inserted[p]

\* C1: a Create with valid input whose username and email are not stored yet
\* answers 201, and every later List holds its record with its generated id.
C1_CreateSucceeds ==
    \A p \in Workers :
        ( /\ Finished(p, "post")
          /\ ViolatedFields(args[p]) = {}
          /\ ~ UsernameStoredBefore(p)
          /\ ~ EmailStoredBefore(p) )
        => /\ resp[p].status = 201
           /\ RecordStored(p)
           /\ \A q \in Workers :
                ListedAfter(q, p) =>
                    \E i \in 1 .. Len(resp[q].body) :
                        /\ resp[q].body[i].username = args[p].username
                        /\ resp[q].body[i].email = args[p].email
                        /\ resp[q].body[i].id = inserted[p]

\* C2: a finished Create either reports success and its record is stored, or
\* reports a failure and has written no record.
C2_AllOrNothing ==
    \A p \in Workers :
        Finished(p, "post") =>
            \/ resp[p].status = 201 /\ RecordStored(p)
            \/ resp[p].status # 201 /\ inserted[p] = 0

\* C3: of two valid Creates with the same username or the same email, exactly
\* one reports success and the other ConflictError, and one record is stored.
C3_OneSuccessOneConflict ==
    \A p, q \in Workers :
        ( /\ p # q
          /\ Finished(p, "post")
          /\ Finished(q, "post")
          /\ ViolatedFields(args[p]) = {}
          /\ ViolatedFields(args[q]) = {}
          /\ \/ args[p].username = args[q].username
             \/ args[p].email = args[q].email )
        => /\ {resp[p].status, resp[q].status} = {201, 409}
           /\ Cardinality({ i \in 1 .. Len(accounts) :
                              \/ accounts[i].username = args[p].username
                              \/ accounts[i].email = args[p].email }) = 1

\* C4: no two stored records share a username, and no two share an email.
C4_Unique ==
    \A i, j \in 1 .. Len(accounts) :
        i # j => /\ accounts[i].username # accounts[j].username
                 /\ accounts[i].email # accounts[j].email

\* C4 witness: a record is stored and a second Create for the same username or
\* email has been through its INSERT without adding a record.
C4_Witness ==
    \E p \in Workers :
        /\ Finished(p, "post")
        /\ UsernameStoredBefore(p) \/ EmailStoredBefore(p)
        /\ Len(accounts) >= 1

\* C5: a Create that breaks a rule fails with 400, the reported fields are
\* exactly the violated ones, and the request never reaches storage.
C5_ValidationError ==
    \A p \in Workers :
        (kind[p] = "post" /\ ViolatedFields(args[p]) # {})
        => /\ pc[p] = "done"
           /\ resp[p].status = 400
           /\ resp[p].kind = "abort"
           /\ DOMAIN resp[p].message = ViolatedFields(args[p])
           /\ conn[p] = "none"
           /\ pending[p] = <<>>
           /\ inserted[p] = 0
           /\ writer # p

\* C5 witness: all three fields are reported at once.
C5_Witness ==
    \E p \in Workers :
        /\ Finished(p, "post")
        /\ resp[p].status = 400
        /\ DOMAIN resp[p].message = Fields

NamesUsername(r) == Contains(r.message, "username already exists")
NamesEmail(r) == Contains(r.message, "email already registered")

C7_NoUnhandledException ==
    \A p \in Workers :
        Finished(p, "post") =>
            /\ resp[p].kind # "unhandled"
            /\ resp[p].status \in {201, 400, 409, 500}

\* C8: a List returns one entry per stored account, in insertion order, with
\* the account's id, username, email and stored created_at and nothing else.
C8_ListReturnsAccounts ==
    \A p \in Workers :
        (Finished(p, "get") /\ resp[p].status = 200)
        => /\ Len(resp[p].body) = tableLen[p]
           /\ inserted[p] = 0
           /\ \A i \in 1 .. Len(resp[p].body) :
                /\ DOMAIN resp[p].body[i] = AccountFields
                /\ resp[p].body[i].id = accounts[i].id
                /\ resp[p].body[i].username = accounts[i].username
                /\ resp[p].body[i].email = accounts[i].email
                /\ resp[p].body[i].created_at = accounts[i].created_at

\* Connections that have been opened and not closed.
OpenConnections == garbage + Cardinality({ p \in Workers : conn[p] = "open" })

\* C9: a finished request has closed its connection, and with no request in
\* progress no connection is open.
C9_ConnectionsReleased ==
    /\ \A p \in Workers : pc[p] = "done" => conn[p] # "open"
    /\ (\A p \in Workers : pc[p] = "idle") => OpenConnections = 0

ConflictTexts ==
    { <<"uniqueness error: ", "username already exists">>,
      <<"uniqueness error: ", "email already registered">>,
      <<"uniqueness error: ">> }

\* C10: no stored or pending password_hash is empty or equal to a plaintext,
\* in particular the one it was derived from, and no response carries a
\* password or password_hash: entries have the account fields only, and error
\* bodies are fixed texts.
C10_NoPlaintext ==
    /\ \A i \in 1 .. Len(accounts) :
        /\ accounts[i].password_hash # <<>>
        /\ accounts[i].password_hash \notin Passwords
    /\ \A p \in Workers :
        /\ \A i \in 1 .. Len(pending[p]) :
            /\ pending[p][i].password_hash # <<>>
            /\ pending[p][i].password_hash # args[p].password
        /\ inserted[p] > 0 => accounts[inserted[p]].password_hash # args[p].password
        /\ (pc[p] = "done" /\ resp[p].kind = "return") =>
                \A i \in 1 .. Len(resp[p].body) :
                    DOMAIN resp[p].body[i] \cap {"password", "password_hash"} = {}
        /\ (pc[p] = "done" /\ resp[p].status = 400) =>
                \A f \in DOMAIN resp[p].message : resp[p].message[f] = ErrorMessage[f]
        /\ (pc[p] = "done" /\ resp[p].status = 409) => resp[p].message \in ConflictTexts

\* C10 witness: a List has returned a stored account.
C10_Witness ==
    \E p \in Workers :
        /\ Finished(p, "get")
        /\ resp[p].status = 200
        /\ Len(resp[p].body) >= 1
        /\ Len(accounts) >= 1
====
